---- MODULE Spec2Model ----
(***************************************************************************)
(* Model of the Supermarket Sales ETL pipeline.  Its core is the transform  *)
(* stage (src/src/etl/transform.py): DataTransformer.transform_data and    *)
(* its three stages _clean_data, _create_dimensions and                    *)
(* _create_fact_table.  Around it are the runner (scripts/run_etl.py),     *)
(* extraction (src/src/etl/extract.py) and load (src/src/etl/load.py).     *)
(*                                                                         *)
(* A DataFrame is a record [columns, rows]: the ordered column labels and  *)
(* the ordered rows, each row a function from the column labels to cell    *)
(* values.  A text cell is a sequence of tokens, so that trimming, numeric *)
(* coercion and date/time parsing are computed and not assumed.            *)
(***************************************************************************)
EXTENDS Integers, Sequences, FiniteSets, TLC

VARIABLES
    raw,               \* the DataFrame passed to transform_data
    pc,                \* position of the call in transform_data
    cleaned_df,        \* the local cleaned_df of transform_data
    dimension_tables,  \* DataTransformer.dimension_tables
    fact_data,         \* DataTransformer.fact_data, <<>> for None
    result,            \* the dict transform_data returned, empty if none
    processed,         \* the files of data/processed, by file name
    run,               \* number of calls of transform_data made
    previous,          \* outcome of the previous call on the same input
    stages,            \* the stages the current call has entered, in order
    calls,             \* the stage functions called so far, in order
    source,            \* data/raw/SuperMarketAnalysis.csv, <<>> when absent
    diagnostics,       \* the warnings of _validate_data_quality
    warehouse,         \* the six tables of the database
    db_log,            \* the statements load_data has sent to the database
    cursor             \* position of load_data in its steps

vars == <<raw, pc, cleaned_df, dimension_tables, fact_data, result, processed, run, previous, stages,
          calls, source, diagnostics, warehouse, db_log, cursor>>

\* the state outside the transformer: the source file, the log and the database
io == <<source, diagnostics, warehouse, db_log, cursor>>

\* ------------------------------------------------------------------------
\* Bounds of the model
\* ------------------------------------------------------------------------

\* longest sequence of well-formed raw records handed to transform_data
MaxLen == 3

\* longest raw record sequence in which one cell or one column is defective
MaxDefectLen == 2

\* longest record sequence used when the two builders are called directly
MaxDirect == 2

\* calls of transform_data on one input
MaxRuns == 2

\* latest day of the month among the dates of the calendar inputs
MaxDay == 7

\* most blanks put before or after the text of a cell
MaxPad == 1

\* longest record sequence handed to a transformer that is used twice
MaxReuseLen == 1

\* ------------------------------------------------------------------------
\* Cell values
\* ------------------------------------------------------------------------

\* a Python str, as its sequence of tokens
Str(s) == [k |-> "str", n |-> 0, s |-> s, d |-> <<>>]

\* a number (prices and amounts in cents)
Num(n) == [k |-> "num", n |-> n, s |-> <<>>, d |-> <<>>]

\* numpy NaN / pandas NaT: the missing value
NaN == [k |-> "nan", n |-> 0, s |-> <<>>, d |-> <<>>]

\* Python None, what dict.get returns on a miss
None == [k |-> "none", n |-> 0, s |-> <<>>, d |-> <<>>]

\* pandas.Timestamp of a calendar date
Timestamp(y, m, dd) == [k |-> "ts", n |-> 0, s |-> <<>>, d |-> <<y, m, dd>>]

\* datetime.time
Time(h, mi, sec) == [k |-> "time", n |-> 0, s |-> <<>>, d |-> <<h, mi, sec>>]

\* DataFrame.isna on one cell: NaN, NaT and None are all missing
IsNull(v) == v.k \in {"nan", "none"}

\* the numeric tokens that occur in cells, with the numbers they denote
Numeral ==
    ("0" :> 0) @@ ("00" :> 0) @@ ("1" :> 1) @@ ("2" :> 2) @@ ("3" :> 3) @@
    ("4" :> 4) @@ ("5" :> 5) @@ ("6" :> 6) @@ ("7" :> 7) @@ ("8" :> 8) @@
    ("9" :> 9) @@ ("08" :> 8) @@ ("10" :> 10) @@ ("11" :> 11) @@ ("12" :> 12) @@
    ("13" :> 13) @@ ("15" :> 15) @@ ("20" :> 20) @@ ("29" :> 29) @@
    ("21" :> 21) @@ ("30" :> 30) @@ ("31" :> 31) @@ ("70" :> 70) @@
    ("73" :> 73) @@ ("100" :> 100) @@ ("105" :> 105) @@
    ("2019" :> 2019) @@ ("2020" :> 2020)

IsNumeral(tok) == tok \in DOMAIN Numeral

ParseInt(tok) == Numeral[tok]

\* ------------------------------------------------------------------------
\* Sequence helpers
\* ------------------------------------------------------------------------

RECURSIVE SelectIdx(_, _, _)
\* the indices i of 1..n, ascending from i, that satisfy keep[i]
SelectIdx(keep, i, n) ==
    IF i > n THEN <<>>
    ELSE IF keep[i] THEN <<i>> \o SelectIdx(keep, i + 1, n)
    ELSE SelectIdx(keep, i + 1, n)

\* the sequences over S of length at most n
SeqUpTo(S, n) == UNION {[1..m -> S] : m \in 0..n}

\* ------------------------------------------------------------------------
\* Column labels of the raw data
\* ------------------------------------------------------------------------

string_columns == <<"Branch", "City", "Customer type", "Gender", "Product line", "Payment">>

numeric_columns == <<"Unit price", "Quantity", "Tax 5%", "Sales", "cogs", "gross income", "Rating">>

AllColumns ==
    <<"Invoice ID", "Branch", "City", "Customer type", "Gender", "Product line",
      "Unit price", "Quantity", "Tax 5%", "Sales", "cogs",
      "gross margin percentage", "gross income", "Rating", "Date", "Time",
      "Payment">>

Range(s) == {s[i] : i \in DOMAIN s}

\* `col in df.columns`
HasColumn(df, col) == col \in Range(df.columns)

\* ------------------------------------------------------------------------
\* _clean_data: the per-column conversions
\* ------------------------------------------------------------------------

RECURSIVE LStrip(_)
LStrip(s) == IF s # <<>> /\ Head(s) = " " THEN LStrip(Tail(s)) ELSE s

RECURSIVE RStrip(_)
RStrip(s) == IF s # <<>> /\ s[Len(s)] = " " THEN RStrip(SubSeq(s, 1, Len(s) - 1)) ELSE s

\* variant: Series.str.lstrip, only leading whitespace is removed
StrStrip_leading_only(v) == IF v.k = "str" THEN Str(LStrip(v.s)) ELSE NaN

\* Series.str.strip on one cell: text is trimmed at both ends, a non-text
\* cell becomes NaN
StrStrip(v) == IF v.k = "str" THEN Str(RStrip(LStrip(v.s))) ELSE NaN

\* the .str accessor exists on an object column; read_csv types a column
\* with no text in it (all cells empty) as float64, which has no .str
HasStrAccessor(df, col) ==
    \/ df.rows = <<>>
    \/ \E i \in DOMAIN df.rows : df.rows[i][col].k = "str"

\* pd.to_numeric(errors='coerce') on one cell
ToNumeric(v) ==
    IF v.k = "num" THEN v
    ELSE IF v.k = "str" /\ Len(RStrip(LStrip(v.s))) = 1 /\ IsNumeral(RStrip(LStrip(v.s))[1])
         THEN Num(ParseInt(RStrip(LStrip(v.s))[1]))
    ELSE NaN

IsLeap(y) == (y % 4 = 0 /\ y % 100 # 0) \/ y % 400 = 0

DaysInMonth(y, m) ==
    IF m = 2 THEN (IF IsLeap(y) THEN 29 ELSE 28)
    ELSE IF m \in {4, 6, 9, 11} THEN 30 ELSE 31

\* a cell pd.to_datetime accepts: a missing cell, or month/day/year text of a
\* day of the calendar
DateParses(v) ==
    \/ IsNull(v)
    \/ /\ v.k = "str"
       /\ Len(v.s) = 5
       /\ v.s[2] = "/" /\ v.s[4] = "/"
       /\ IsNumeral(v.s[1]) /\ IsNumeral(v.s[3]) /\ IsNumeral(v.s[5])
       /\ ParseInt(v.s[1]) \in 1..12
       /\ ParseInt(v.s[3]) \in 1..DaysInMonth(ParseInt(v.s[5]), ParseInt(v.s[1]))

\* pd.to_datetime on one cell that parses
ToDatetime(v) ==
    IF IsNull(v) THEN NaN
    ELSE Timestamp(ParseInt(v.s[5]), ParseInt(v.s[1]), ParseInt(v.s[3]))

\* a cell that matches format '%I:%M:%S %p' (or is missing)
TimeParses(v) ==
    \/ IsNull(v)
    \/ /\ v.k = "str"
       /\ Len(v.s) = 7
       /\ v.s[2] = ":" /\ v.s[4] = ":" /\ v.s[6] = " "
       /\ IsNumeral(v.s[1]) /\ IsNumeral(v.s[3]) /\ IsNumeral(v.s[5])
       /\ ParseInt(v.s[1]) \in 1..12
       /\ ParseInt(v.s[3]) \in 0..59
       /\ ParseInt(v.s[5]) \in 0..59
       /\ v.s[7] \in {"AM", "PM"}

\* pd.to_datetime(format='%I:%M:%S %p').dt.time on one cell that parses:
\* the 12-hour clock with meridiem becomes the hour of the day
ToTime(v) ==
    IF IsNull(v) THEN NaN
    ELSE Time((ParseInt(v.s[1]) % 12) + (IF v.s[7] = "PM" THEN 12 ELSE 0),
              ParseInt(v.s[3]), ParseInt(v.s[5]))

\* the four per-cell conversions of _clean_data
Convert(conversion, v) ==
    CASE conversion = "to_datetime" -> ToDatetime(v)
      [] conversion = "to_time" -> ToTime(v)
      [] conversion = "strip" -> StrStrip(v)
      [] conversion = "to_numeric" -> ToNumeric(v)

\* df[col] = conversion(df[col]): the cells of one column rewritten, the
\* other cells kept
MapColumn(df, col, conversion) ==
    [df EXCEPT !.rows = [i \in DOMAIN df.rows |->
        [c \in DOMAIN df.rows[i] |->
            IF c = col THEN Convert(conversion, df.rows[i][c]) ELSE df.rows[i][c]]]]

RECURSIVE StripColumns(_, _)
\* the loop over string_columns: absent columns are skipped
StripColumns(df, cols) ==
    IF cols = <<>> THEN df
    ELSE IF HasColumn(df, Head(cols))
         THEN StripColumns(MapColumn(df, Head(cols), "strip"), Tail(cols))
    ELSE StripColumns(df, Tail(cols))

RECURSIVE CoerceColumns(_, _)
\* the loop over numeric_columns: absent columns are skipped
CoerceColumns(df, cols) ==
    IF cols = <<>> THEN df
    ELSE IF HasColumn(df, Head(cols))
         THEN CoerceColumns(MapColumn(df, Head(cols), "to_numeric"), Tail(cols))
    ELSE CoerceColumns(df, Tail(cols))

\* variant: dropna(subset=numeric_columns), only the numeric cells are tested
RowComplete_numeric_only(row) ==
    \A j \in DOMAIN numeric_columns :
        numeric_columns[j] \in DOMAIN row => ~IsNull(row[numeric_columns[j]])

\* a row DataFrame.dropna keeps: no cell of it is missing
RowComplete(row) == \A c \in DOMAIN row : ~IsNull(row[c])

\* DataFrame.dropna(): the rows without a missing cell, in their order
DropNa(df) ==
    LET keep == [i \in DOMAIN df.rows |-> RowComplete(df.rows[i])]
        idx == SelectIdx(keep, 1, Len(df.rows))
    IN [df EXCEPT !.rows = [j \in DOMAIN idx |-> df.rows[idx[j]]]]

\* the statements of _clean_data that raise: the Date or Time column is
\* absent (KeyError), a date or time cell does not parse (ValueError), or a
\* string column has no .str accessor (AttributeError)
CleanRaises(df) ==
    \/ ~HasColumn(df, "Date")
    \/ \E i \in DOMAIN df.rows : ~DateParses(df.rows[i]["Date"])
    \/ ~HasColumn(df, "Time")
    \/ \E i \in DOMAIN df.rows : ~TimeParses(df.rows[i]["Time"])
    \/ \E j \in DOMAIN string_columns :
          HasColumn(df, string_columns[j]) /\ ~HasStrAccessor(df, string_columns[j])

\* DataTransformer._clean_data when it does not raise: the cleaned copy
_clean_data(df) ==
    DropNa(CoerceColumns(StripColumns(
        MapColumn(MapColumn(df, "Date", "to_datetime"), "Time", "to_time"),
        string_columns), numeric_columns))

\* ------------------------------------------------------------------------
\* _create_dimensions
\* ------------------------------------------------------------------------

\* df[cols] of one row: the tuple of the row's cells in the listed columns
Project(row, cols) == [j \in DOMAIN cols |-> row[cols[j]]]

\* variant: drop_duplicates(keep='last'), the last row of each tuple is kept
drop_duplicates_keep_last(df, cols) ==
    LET keep == [i \in DOMAIN df.rows |->
                    \A j \in (i + 1)..Len(df.rows) : Project(df.rows[j], cols) # Project(df.rows[i], cols)]
    IN SelectIdx(keep, 1, Len(df.rows))

\* DataFrame.drop_duplicates() on the projection df[cols]: the indices of
\* the rows whose tuple did not occur in an earlier row (keep='first'), in
\* row order
drop_duplicates(df, cols) ==
    LET keep == [i \in DOMAIN df.rows |->
                    \A j \in 1..(i - 1) : Project(df.rows[j], cols) # Project(df.rows[i], cols)]
    IN SelectIdx(keep, 1, Len(df.rows))

\* variant: range(len(dim)), keys counted from 0
SurrogateKey_zero_based(i) == i - 1

\* variant: a key counter shared by all transformers, not reset between calls
SurrogateKey_carry(i) == i + (run - 1)

\* range(1, len(dim) + 1): the surrogate key of the i-th row of a dimension
SurrogateKey(i) == i

\* an empty dict
EmptyDict == [x \in {} |-> 0]

\* d[key] = value
DictSet(d, key, value) == (key :> value) @@ d

\* `df[cols]` raises KeyError unless every listed column is present
HasColumns(df, cols) == \A j \in DOMAIN cols : HasColumn(df, cols[j])

customer_df(df) ==
    LET idx == drop_duplicates(df, <<"Customer type", "Gender">>)
    IN [columns |-> <<"customer_id", "customer_type", "gender">>,
        rows |-> [i \in DOMAIN idx |->
            [customer_id |-> SurrogateKey(i),
             customer_type |-> df.rows[idx[i]]["Customer type"],
             gender |-> df.rows[idx[i]]["Gender"]]]]

\* variant: the product dimension is deduplicated on the product line alone
product_df_by_line(df) ==
    LET idx == drop_duplicates(df, <<"Product line">>)
    IN [columns |-> <<"product_id", "product_line", "unit_price">>,
        rows |-> [i \in DOMAIN idx |->
            [product_id |-> SurrogateKey(i),
             product_line |-> df.rows[idx[i]]["Product line"],
             unit_price |-> df.rows[idx[i]]["Unit price"]]]]

product_df(df) ==
    LET idx == drop_duplicates(df, <<"Product line", "Unit price">>)
    IN [columns |-> <<"product_id", "product_line", "unit_price">>,
        rows |-> [i \in DOMAIN idx |->
            [product_id |-> SurrogateKey(i),
             product_line |-> df.rows[idx[i]]["Product line"],
             unit_price |-> df.rows[idx[i]]["Unit price"]]]]

\* day of the week of a calendar date, Sunday = 0 (Sakamoto's method)
DayOfWeekSun0(y, m, dd) ==
    LET t == <<0, 3, 2, 5, 0, 3, 5, 1, 4, 6, 2, 4>>
        yy == IF m < 3 THEN y - 1 ELSE y
    IN (yy + (yy \div 4) - (yy \div 100) + (yy \div 400) + t[m] + dd) % 7

\* datetime.weekday(): Monday = 0 ... Sunday = 6
weekday(date) == (DayOfWeekSun0(date.d[1], date.d[2], date.d[3]) + 6) % 7

\* variant: the quarter is derived without the offset of one month
quarter_no_offset(month) == (month \div 3) + 1

\* the quarter of a month as the time dimension derives it
quarter(month) == ((month - 1) \div 3) + 1

\* variant: the dicts of time_data carry no quarter
time_df_no_quarter(df) ==
    LET idx == drop_duplicates(df, <<"Date", "Time">>)
    IN [columns |-> IF idx = <<>> THEN <<"time_id">>
                    ELSE <<"time_id", "date", "time", "year", "month", "day",
                           "weekday", "is_weekend">>,
        rows |-> [i \in DOMAIN idx |->
            LET date == df.rows[idx[i]]["Date"]
            IN [time_id |-> SurrogateKey(i),
                date |-> date,
                time |-> df.rows[idx[i]]["Time"],
                year |-> date.d[1],
                month |-> date.d[2],
                day |-> date.d[3],
                weekday |-> weekday(date),
                is_weekend |-> weekday(date) >= 5]]]

\* variant: only weekday 6 counts as weekend
time_df_sunday_only(df) ==
    LET idx == drop_duplicates(df, <<"Date", "Time">>)
    IN [columns |-> IF idx = <<>> THEN <<"time_id">>
                    ELSE <<"time_id", "date", "time", "year", "month", "day",
                           "quarter", "weekday", "is_weekend">>,
        rows |-> [i \in DOMAIN idx |->
            LET date == df.rows[idx[i]]["Date"]
            IN [time_id |-> SurrogateKey(i),
                date |-> date,
                time |-> df.rows[idx[i]]["Time"],
                year |-> date.d[1],
                month |-> date.d[2],
                day |-> date.d[3],
                quarter |-> quarter(date.d[2]),
                weekday |-> weekday(date),
                is_weekend |-> weekday(date) > 5]]]

\* the time dimension: pd.DataFrame(time_data) has the eight derived columns
\* only when time_data is not empty; time_id is inserted in front
time_df(df) ==
    LET idx == drop_duplicates(df, <<"Date", "Time">>)
    IN [columns |-> IF idx = <<>> THEN <<"time_id">>
                    ELSE <<"time_id", "date", "time", "year", "month", "day",
                           "quarter", "weekday", "is_weekend">>,
        rows |-> [i \in DOMAIN idx |->
            LET date == df.rows[idx[i]]["Date"]
            IN [time_id |-> SurrogateKey(i),
                date |-> date,
                time |-> df.rows[idx[i]]["Time"],
                year |-> date.d[1],
                month |-> date.d[2],
                day |-> date.d[3],
                quarter |-> quarter(date.d[2]),
                weekday |-> weekday(date),
                is_weekend |-> weekday(date) >= 5]]]

branch_df(df) ==
    LET idx == drop_duplicates(df, <<"Branch", "City">>)
    IN [columns |-> <<"branch_id", "branch", "city">>,
        rows |-> [i \in DOMAIN idx |->
            [branch_id |-> SurrogateKey(i),
             branch |-> df.rows[idx[i]]["Branch"],
             city |-> df.rows[idx[i]]["City"]]]]

payment_df(df) ==
    LET idx == drop_duplicates(df, <<"Payment">>)
    IN [columns |-> <<"payment_id", "payment_method">>,
        rows |-> [i \in DOMAIN idx |->
            [payment_id |-> SurrogateKey(i),
             payment_method |-> df.rows[idx[i]]["Payment"]]]]

\* the natural-key columns of each dimension, in the order the dimensions
\* are built
DimOrder == <<"customer", "product", "time", "branch", "payment">>

DimSource ==
    [customer |-> <<"Customer type", "Gender">>,
     product |-> <<"Product line", "Unit price">>,
     time |-> <<"Date", "Time">>,
     branch |-> <<"Branch", "City">>,
     payment |-> <<"Payment">>]

BuildDim(name, df) ==
    CASE name = "customer" -> customer_df(df)
      [] name = "product" -> product_df(df)
      [] name = "time" -> time_df(df)
      [] name = "branch" -> branch_df(df)
      [] name = "payment" -> payment_df(df)

RECURSIVE BuildDims(_, _, _)
\* the five blocks of _create_dimensions from block k on: each stores its
\* table in dimension_tables; a block whose source columns are absent
\* raises KeyError and leaves the tables stored so far
BuildDims(tables, df, k) ==
    IF k > Len(DimOrder) THEN [raised |-> FALSE, tables |-> tables]
    ELSE IF ~HasColumns(df, DimSource[DimOrder[k]]) THEN [raised |-> TRUE, tables |-> tables]
    ELSE BuildDims(DictSet(tables, DimOrder[k], BuildDim(DimOrder[k], df)), df, k + 1)

\* variant: dimension tables the instance already holds are kept as they are
_create_dimensions_cached(tables, df) ==
    IF tables # EmptyDict THEN [raised |-> FALSE, tables |-> tables] ELSE BuildDims(tables, df, 1)

\* DataTransformer._create_dimensions on the instance's dimension_tables
_create_dimensions(tables, df) == BuildDims(tables, df, 1)

\* ------------------------------------------------------------------------
\* _create_fact_table
\* ------------------------------------------------------------------------

\* dict(zip(zip(table[keycols...]), table[idcol])): natural-key tuple to
\* surrogate key; a later row with the same tuple overwrites an earlier one
LookupDict(table, keycols, idcol) ==
    [key \in {Project(table.rows[i], keycols) : i \in DOMAIN table.rows} |->
        table.rows[CHOOSE i \in DOMAIN table.rows :
            /\ Project(table.rows[i], keycols) = key
            /\ \A j \in DOMAIN table.rows :
                  Project(table.rows[j], keycols) = key => j <= i][idcol]]

\* dict.get(key): the value, or None when the key is absent
DictGet(d, key) == IF key \in DOMAIN d THEN Num(d[key]) ELSE None

\* the natural-key columns and the key column of each dimension table
DimKey ==
    [customer |-> <<"customer_type", "gender">>,
     product |-> <<"product_line", "unit_price">>,
     time |-> <<"date", "time">>,
     branch |-> <<"branch", "city">>,
     payment |-> <<"payment_method">>]

DimId ==
    [customer |-> "customer_id", product |-> "product_id", time |-> "time_id",
     branch |-> "branch_id", payment |-> "payment_id"]

\* the statements that build the five lookups raise KeyError when a
\* dimension table is not in dimension_tables or lacks a column they read
LookupsRaise(tables) ==
    \E k \in DOMAIN DimOrder :
        \/ DimOrder[k] \notin DOMAIN tables
        \/ ~HasColumns(tables[DimOrder[k]], DimKey[DimOrder[k]] \o <<DimId[DimOrder[k]]>>)

\* variant: the lookup tuple is built with its columns in the opposite order
ForeignKey_swapped(tables, name, row) ==
    LET key == Project(row, DimSource[name])
    IN DictGet(LookupDict(tables[name], DimKey[name], DimId[name]),
               [j \in DOMAIN key |-> key[Len(key) + 1 - j]])

\* the foreign key of one cleaned row into dimension name
ForeignKey(tables, name, row) ==
    DictGet(LookupDict(tables[name], DimKey[name], DimId[name]),
            Project(row, DimSource[name]))

\* variant: the sales and cogs measures are read from each other's column
FactRow_swapped(tables, row) ==
    [invoice_id |-> row["Invoice ID"],
     customer_id |-> ForeignKey(tables, "customer", row),
     product_id |-> ForeignKey(tables, "product", row),
     time_id |-> ForeignKey(tables, "time", row),
     branch_id |-> ForeignKey(tables, "branch", row),
     payment_id |-> ForeignKey(tables, "payment", row),
     quantity |-> row["Quantity"],
     tax_5_percent |-> row["Tax 5%"],
     sales |-> row["cogs"],
     cogs |-> row["Sales"],
     gross_margin_percentage |-> row["gross margin percentage"],
     gross_income |-> row["gross income"],
     rating |-> row["Rating"]]

\* the dict appended to fact_data for one cleaned row
FactRow(tables, row) ==
    [invoice_id |-> row["Invoice ID"],
     customer_id |-> ForeignKey(tables, "customer", row),
     product_id |-> ForeignKey(tables, "product", row),
     time_id |-> ForeignKey(tables, "time", row),
     branch_id |-> ForeignKey(tables, "branch", row),
     payment_id |-> ForeignKey(tables, "payment", row),
     quantity |-> row["Quantity"],
     tax_5_percent |-> row["Tax 5%"],
     sales |-> row["Sales"],
     cogs |-> row["cogs"],
     gross_margin_percentage |-> row["gross margin percentage"],
     gross_income |-> row["gross income"],
     rating |-> row["Rating"]]

FactColumns ==
    <<"invoice_id", "customer_id", "product_id", "time_id", "branch_id",
      "payment_id", "quantity", "tax_5_percent", "sales", "cogs",
      "gross_margin_percentage", "gross_income", "rating">>

\* the loop over df.iterrows() raises KeyError on its first row when a
\* column it reads is absent
FactLoopRaises(df) == df.rows # <<>> /\ ~HasColumns(df, AllColumns)

\* `_create_fact_table` raises before it assigns self.fact_data
FactRaises(tables, df) == LookupsRaise(tables) \/ FactLoopRaises(df)

\* variant: the loop runs over the frame deduplicated on the customer key
_create_fact_table_distinct(tables, df) ==
    LET idx == drop_duplicates(df, <<"Customer type", "Gender">>)
    IN [columns |-> IF df.rows = <<>> THEN <<>> ELSE FactColumns,
        rows |-> [i \in DOMAIN idx |-> FactRow(tables, df.rows[idx[i]])]]

\* pd.DataFrame(fact_data): one row per row of df, in the order of df; a
\* frame built from an empty list has no columns
_create_fact_table(tables, df) ==
    [columns |-> IF df.rows = <<>> THEN <<>> ELSE FactColumns,
     rows |-> [i \in DOMAIN df.rows |-> FactRow(tables, df.rows[i])]]

\* ------------------------------------------------------------------------
\* _save_processed_data
\* ------------------------------------------------------------------------

\* the files _save_processed_data writes, in the order it writes them: one
\* per entry of dimension_tables, then fact_sales.csv
SaveOrder == <<"customer.csv", "product.csv", "time.csv", "branch.csv", "payment.csv", "fact_sales.csv">>

SaveContent(tables, fact) ==
    [customer |-> tables["customer"], product |-> tables["product"],
     time |-> tables["time"], branch |-> tables["branch"],
     payment |-> tables["payment"], fact_sales |-> fact]

SaveKey == <<"customer", "product", "time", "branch", "payment", "fact_sales">>

RECURSIVE WriteFiles(_, _, _, _)
\* the first n files written over the files already on disk
WriteFiles(files, content, k, n) ==
    IF k > n THEN files
    ELSE WriteFiles(DictSet(files, SaveOrder[k], content[SaveKey[k]]), content, k + 1, n)

\* _save_processed_data that gets through n of its six writes: an exception
\* (mkdir or to_csv failing) is logged and swallowed, the files written
\* before it stay
_save_processed_data(files, tables, fact, n) ==
    WriteFiles(files, SaveContent(tables, fact), 1, n)

\* ------------------------------------------------------------------------
\* Inputs
\* ------------------------------------------------------------------------

Record(branch, city, ctype, gender, line, price, qty, tax, sales, cogs, gmp, income, rating, date, time, payment) ==
    ("Invoice ID" :> Str(<<"INV">>)) @@
    ("Branch" :> Str(<<branch>>)) @@ ("City" :> Str(<<city>>)) @@
    ("Customer type" :> Str(<<ctype>>)) @@ ("Gender" :> Str(<<gender>>)) @@
    ("Product line" :> Str(<<line>>)) @@ ("Unit price" :> Num(price)) @@
    ("Quantity" :> Num(qty)) @@ ("Tax 5%" :> Num(tax)) @@ ("Sales" :> Num(sales)) @@
    ("cogs" :> Num(cogs)) @@ ("gross margin percentage" :> Num(gmp)) @@
    ("gross income" :> Num(income)) @@ ("Rating" :> Num(rating)) @@
    ("Date" :> Str(date)) @@ ("Time" :> Str(time)) @@ ("Payment" :> Str(<<payment>>))

\* three well-formed sales: three customers, three products (two of one
\* product line), three times (two on one date), two branches, two payments
Sale1 == Record("A", "Yangon", "Member", "Female", "Health", 10, 7, 3, 73, 70, 4, 3, 9,
                <<"1", "/", "5", "/", "2019">>, <<"1", ":", "08", ":", "00", " ", "PM">>, "Cash")

Sale2 == Record("B", "Mandalay", "Normal", "Male", "Health", 20, 5, 5, 105, 100, 4, 5, 6,
                <<"1", "/", "5", "/", "2019">>, <<"10", ":", "29", ":", "00", " ", "AM">>, "Card")

Sale3 == Record("A", "Yangon", "Member", "Male", "Electronic", 10, 2, 1, 21, 20, 4, 1, 8,
                <<"4", "/", "15", "/", "2019">>, <<"12", ":", "08", ":", "00", " ", "AM">>, "Cash")

Palette == {Sale1, Sale2, Sale3}

\* the invoice id of the i-th record of an input
InvoiceId(i) == Str(<<"INV", ToString(i)>>)

\* the raw DataFrame of a record sequence: all columns, invoice ids by position
Frame(recs) ==
    [columns |-> AllColumns,
     rows |-> [i \in DOMAIN recs |-> [recs[i] EXCEPT !["Invoice ID"] = InvoiceId(i)]]]

\* cell values that make a record of an input differ from a well-formed sale
Defects ==
    \* an empty cell, in any column
    {[col |-> AllColumns[j], val |-> NaN] : j \in DOMAIN AllColumns}
    \* text that is no number, in a numeric column
    \cup {[col |-> numeric_columns[j], val |-> Str(<<"abc">>)] : j \in DOMAIN numeric_columns}
    \* a number written as text, in a numeric column
    \cup {[col |-> numeric_columns[j], val |-> Str(<<" ", "20">>)] : j \in DOMAIN numeric_columns}
    \* text with surrounding whitespace, in a string column
    \cup {[col |-> string_columns[j], val |-> Str(<<" ", "A", " ">>)] : j \in DOMAIN string_columns}
    \* a date that is no date, and a day that is not in the calendar
    \cup {[col |-> "Date", val |-> Str(<<"abc">>)],
          [col |-> "Date", val |-> Str(<<"2", "/", "30", "/", "2019">>)]}
    \* a time that does not match the 12-hour format
    \cup {[col |-> "Time", val |-> Str(<<"abc">>)],
          [col |-> "Time", val |-> Str(<<"13", ":", "08", ":", "00", " ", "PM">>)]}

\* a frame with one cell replaced
WithDefect(df, i, defect) == [df EXCEPT !.rows[i][defect.col] = defect.val]

\* a frame without column col
WithoutColumn(df, col) ==
    [columns |-> SelectSeq(df.columns, LAMBDA c : c # col),
     rows |-> [i \in DOMAIN df.rows |-> [c \in (DOMAIN df.rows[i]) \ {col} |-> df.rows[i][c]]]]

WellFormedInputs == {Frame(recs) : recs \in SeqUpTo(Palette, MaxLen)}

\* the frames in which one cell or one column is made defective
DefectBase == {Frame(recs) : recs \in SeqUpTo(Palette, MaxDefectLen)}

DefectInputs ==
    UNION {{WithDefect(df, i, defect) : i \in DOMAIN df.rows, defect \in Defects} : df \in DefectBase}

ColumnInputs ==
    UNION {{WithoutColumn(df, AllColumns[j]) : j \in DOMAIN AllColumns} : df \in DefectBase}

Inputs == WellFormedInputs \cup DefectInputs \cup ColumnInputs

\* ------------------------------------------------------------------------
\* transform_data as a state machine
\* ------------------------------------------------------------------------

\* placeholder of a local that is not assigned yet
NoFrame == [columns |-> <<>>, rows |-> <<>>]

\* the tables of the warehouse, dimensions first
WarehouseTables ==
    <<"dim_customer", "dim_product", "dim_time", "dim_branch", "dim_payment", "fact_sales">>

\* a warehouse table: whether it still holds rows of an earlier run, and
\* the rows this run has inserted
EmptyTable == [old |-> FALSE, rows |-> <<>>]

EmptyWarehouse == [t \in Range(WarehouseTables) |-> EmptyTable]

\* load_data is not running
NoCursor == [step |-> 0, k |-> 0, cleared |-> FALSE]

\* nothing outside the transformer is touched: no source file is read, the
\* warehouse is empty and load_data is not running
Idle ==
    /\ source = <<>>
    /\ diagnostics = {}
    /\ warehouse = EmptyWarehouse
    /\ db_log = <<>>
    /\ cursor = NoCursor

\* DataTransformer.__init__ and the entry of transform_data
Init ==
    /\ raw \in Inputs
    /\ pc = "clean"
    /\ cleaned_df = NoFrame
    /\ dimension_tables = EmptyDict
    /\ fact_data = <<>>
    /\ result = EmptyDict
    /\ processed = EmptyDict
    /\ run = 1
    /\ previous = [pc |-> "none", result |-> EmptyDict]
    /\ stages = <<>>
    /\ calls = <<>>
    /\ Idle

\* variant: _clean_data works on df itself, without df.copy()
Clean_inplace ==
    /\ pc = "clean"
    /\ stages' = Append(stages, "clean")
    /\ calls' = Append(calls, "transform_data")
    /\ IF CleanRaises(raw)
       THEN pc' = "raised" /\ UNCHANGED <<raw, cleaned_df>>
       ELSE pc' = "dims" /\ cleaned_df' = _clean_data(raw) /\ raw' = cleaned_df'
    /\ UNCHANGED <<dimension_tables, fact_data, result, processed, run, previous>>
    /\ UNCHANGED io

\* the entry of transform_data and cleaned_df = self._clean_data(df), which
\* works on df.copy(); an exception goes to the except clause, which logs
\* and re-raises
Clean ==
    /\ pc = "clean"
    /\ stages' = Append(stages, "clean")
    /\ calls' = Append(calls, "transform_data")
    /\ IF CleanRaises(raw)
       THEN pc' = "raised" /\ UNCHANGED cleaned_df
       ELSE pc' = "dims" /\ cleaned_df' = _clean_data(raw)
    /\ UNCHANGED <<raw, dimension_tables, fact_data, result, processed, run, previous>>
    /\ UNCHANGED io

\* self._create_dimensions(cleaned_df)
CreateDimensions ==
    /\ pc = "dims"
    /\ stages' = Append(stages, "dims")
    /\ LET r == _create_dimensions(dimension_tables, cleaned_df)
       IN /\ dimension_tables' = r.tables
          /\ pc' = IF r.raised THEN "raised" ELSE "facts"
    /\ UNCHANGED <<raw, cleaned_df, fact_data, result, processed, run, previous, calls>>
    /\ UNCHANGED io

\* the dict of the return statement of transform_data
ReturnValue(tables, fact) ==
    [dim_customer |-> tables["customer"],
     dim_product |-> tables["product"],
     dim_time |-> tables["time"],
     dim_branch |-> tables["branch"],
     dim_payment |-> tables["payment"],
     fact_sales |-> fact]

\* variant: the except clause returns the tables built so far instead of
\* re-raising
CreateFactTable_partial ==
    /\ pc = "facts"
    /\ stages' = Append(stages, "facts")
    /\ IF FactRaises(dimension_tables, cleaned_df)
       THEN /\ pc' = "returned"
            /\ result' = ReturnValue(dimension_tables, NoFrame)
            /\ UNCHANGED <<fact_data, processed>>
       ELSE /\ pc' = "returned"
            /\ fact_data' = <<_create_fact_table(dimension_tables, cleaned_df)>>
            /\ \E n \in 0..Len(SaveOrder) :
                  processed' = _save_processed_data(processed, dimension_tables, fact_data'[1], n)
            /\ result' = ReturnValue(dimension_tables, fact_data'[1])
    /\ UNCHANGED <<raw, cleaned_df, dimension_tables, run, previous, calls>>
    /\ UNCHANGED io

\* variant: _save_processed_data lets the exception of a failed write out
CreateFactTable_save_raises ==
    /\ pc = "facts"
    /\ stages' = Append(stages, "facts")
    /\ IF FactRaises(dimension_tables, cleaned_df)
       THEN pc' = "raised" /\ UNCHANGED <<fact_data, processed, result>>
       ELSE /\ fact_data' = <<_create_fact_table(dimension_tables, cleaned_df)>>
            /\ \E n \in 0..Len(SaveOrder) :
                  /\ processed' = _save_processed_data(processed, dimension_tables, fact_data'[1], n)
                  /\ IF n < Len(SaveOrder)
                     THEN pc' = "raised" /\ UNCHANGED result
                     ELSE pc' = "returned" /\ result' = ReturnValue(dimension_tables, fact_data'[1])
    /\ UNCHANGED <<raw, cleaned_df, dimension_tables, run, previous, calls>>
    /\ UNCHANGED io

\* self._create_fact_table(cleaned_df), with the _save_processed_data call
\* that ends it, and the return statement that follows it
CreateFactTable ==
    /\ pc = "facts"
    /\ stages' = Append(stages, "facts")
    /\ IF FactRaises(dimension_tables, cleaned_df)
       THEN pc' = "raised" /\ UNCHANGED <<fact_data, processed, result>>
       ELSE /\ pc' = "returned"
            /\ fact_data' = <<_create_fact_table(dimension_tables, cleaned_df)>>
            /\ \E n \in 0..Len(SaveOrder) :
                  processed' = _save_processed_data(processed, dimension_tables, fact_data'[1], n)
            /\ result' = ReturnValue(dimension_tables, fact_data'[1])
    /\ UNCHANGED <<raw, cleaned_df, dimension_tables, run, previous, calls>>
    /\ UNCHANGED io

\* the module-level transform_data called once more on the same DataFrame:
\* it constructs a new DataTransformer
CallAgain ==
    /\ pc \in {"returned", "raised"}
    /\ run < MaxRuns
    /\ previous' = [pc |-> pc, result |-> result]
    /\ run' = run + 1
    /\ pc' = "clean"
    /\ cleaned_df' = NoFrame
    /\ dimension_tables' = EmptyDict
    /\ fact_data' = <<>>
    /\ result' = EmptyDict
    /\ stages' = <<>>
    /\ UNCHANGED <<raw, processed, calls>>
    /\ UNCHANGED io

\* one call of transform_data
Next == Clean \/ CreateDimensions \/ CreateFactTable

Spec == Init /\ [][Next]_vars

\* repeated calls of transform_data on one input
NextTwice == Clean \/ CreateDimensions \/ CreateFactTable \/ CallAgain

SpecTwice == Init /\ [][NextTwice]_vars

\* ------------------------------------------------------------------------
\* One DataTransformer used for two inputs
\* ------------------------------------------------------------------------

\* the inputs of a reused transformer: well-formed records, a frame whose
\* only record is dropped, and frames without a column
ReuseInputs ==
    {Frame(recs) : recs \in SeqUpTo(Palette, MaxReuseLen)}
    \cup {WithDefect(Frame(<<Sale1>>), 1, [col |-> "Quantity", val |-> NaN]),
          WithoutColumn(Frame(<<Sale2>>), "Payment"),
          WithoutColumn(Frame(<<Sale3>>), "Branch")}

InitReuse ==
    /\ raw \in ReuseInputs
    /\ pc = "clean"
    /\ cleaned_df = NoFrame
    /\ dimension_tables = EmptyDict
    /\ fact_data = <<>>
    /\ result = EmptyDict
    /\ processed = EmptyDict
    /\ run = 1
    /\ previous = [pc |-> "none", result |-> EmptyDict]
    /\ stages = <<>>
    /\ calls = <<>>
    /\ Idle

\* transformer.transform_data(df) once more on the same DataTransformer,
\* with another frame: dimension_tables and fact_data are as the earlier
\* call left them
CallOnSameInstance ==
    /\ pc \in {"returned", "raised"}
    /\ run < MaxRuns
    /\ raw' \in ReuseInputs
    /\ previous' = [pc |-> pc, result |-> result]
    /\ run' = run + 1
    /\ pc' = "clean"
    /\ cleaned_df' = NoFrame
    /\ result' = EmptyDict
    /\ stages' = <<>>
    /\ UNCHANGED <<dimension_tables, fact_data, processed, calls>>
    /\ UNCHANGED io

NextReuse == Clean \/ CreateDimensions \/ CreateFactTable \/ CallOnSameInstance

SpecReuse == InitReuse /\ [][NextReuse]_vars

\* ------------------------------------------------------------------------
\* The two builders called directly on one DataTransformer
\* ------------------------------------------------------------------------

\* cleaned frames: what _clean_data returns for well-formed records
CleanedInputs == {_clean_data(Frame(recs)) : recs \in SeqUpTo(Palette, MaxDirect)}

InitDirect ==
    /\ raw = NoFrame
    /\ pc = "new"
    /\ cleaned_df = NoFrame
    /\ dimension_tables = EmptyDict
    /\ fact_data = <<>>
    /\ result = EmptyDict
    /\ processed = EmptyDict
    /\ run = 1
    /\ previous = [pc |-> "none", result |-> EmptyDict]
    /\ stages = <<>>
    /\ calls = <<>>
    /\ Idle

\* transformer._create_dimensions(df) on some cleaned frame df
DirectCreateDimensions ==
    /\ pc = "new"
    /\ \E df \in CleanedInputs :
          LET r == _create_dimensions(dimension_tables, df)
          IN /\ cleaned_df' = df
             /\ dimension_tables' = r.tables
             /\ pc' = IF r.raised THEN "raised" ELSE "built"
    /\ stages' = Append(stages, "dims")
    /\ UNCHANGED <<raw, fact_data, result, processed, run, previous, calls>>
    /\ UNCHANGED io

\* transformer._create_fact_table(df) on some cleaned frame df, which need
\* not be the frame the dimensions were built from
DirectCreateFactTable ==
    /\ pc = "built"
    /\ \E df \in CleanedInputs :
          /\ cleaned_df' = df
          /\ IF FactRaises(dimension_tables, df)
             THEN pc' = "raised" /\ UNCHANGED <<fact_data, processed>>
             ELSE /\ pc' = "done"
                  /\ fact_data' = <<_create_fact_table(dimension_tables, df)>>
                  /\ \E n \in 0..Len(SaveOrder) :
                        processed' = _save_processed_data(processed, dimension_tables, fact_data'[1], n)
    /\ stages' = Append(stages, "facts")
    /\ UNCHANGED <<raw, dimension_tables, result, run, previous, calls>>
    /\ UNCHANGED io

NextDirect == DirectCreateDimensions \/ DirectCreateFactTable

SpecDirect == InitDirect /\ [][NextDirect]_vars

\* ------------------------------------------------------------------------
\* transform_data over the calendar
\* ------------------------------------------------------------------------

\* the years of the calendar inputs: a common year and a leap year
CalendarYears == {2019, 2020}

\* a well-formed sale dated month/day/year
SaleOn(y, m, dd) ==
    [Sale1 EXCEPT !["Date"] = Str(<<ToString(m), "/", ToString(dd), "/", ToString(y)>>)]

\* one record on each of the first MaxDay days of every month
CalendarInputs ==
    {Frame(<<SaleOn(y, m, dd)>>) : y \in CalendarYears, m \in 1..12, dd \in 1..MaxDay}

InitCalendar ==
    /\ raw \in CalendarInputs
    /\ pc = "clean"
    /\ cleaned_df = NoFrame
    /\ dimension_tables = EmptyDict
    /\ fact_data = <<>>
    /\ result = EmptyDict
    /\ processed = EmptyDict
    /\ run = 1
    /\ previous = [pc |-> "none", result |-> EmptyDict]
    /\ stages = <<>>
    /\ calls = <<>>
    /\ Idle

SpecCalendar == InitCalendar /\ [][Next]_vars

\* ------------------------------------------------------------------------
\* transform_data over text with blanks around it
\* ------------------------------------------------------------------------

\* n blanks
Blanks(n) == [i \in 1..n |-> " "]

\* a text cell with blanks put before and after it
Pad(v, lead, trail) == Str(Blanks(lead) \o v.s \o Blanks(trail))

\* two well-formed records, one string cell of one of them padded
PaddedInputs ==
    {[Frame(<<r1, r2>>) EXCEPT !.rows[i][string_columns[j]] = Pad(@, lead, trail)] :
        r1 \in Palette, r2 \in Palette, i \in 1..2, j \in DOMAIN string_columns,
        lead \in 0..MaxPad, trail \in 0..MaxPad}

InitPadded ==
    /\ raw \in PaddedInputs
    /\ pc = "clean"
    /\ cleaned_df = NoFrame
    /\ dimension_tables = EmptyDict
    /\ fact_data = <<>>
    /\ result = EmptyDict
    /\ processed = EmptyDict
    /\ run = 1
    /\ previous = [pc |-> "none", result |-> EmptyDict]
    /\ stages = <<>>
    /\ calls = <<>>
    /\ Idle

SpecPadded == InitPadded /\ [][Next]_vars

\* ------------------------------------------------------------------------
\* extract_data
\* ------------------------------------------------------------------------

\* quality_config['required_columns'], read by DataExtractor.__init__: the
\* named column set of a raw record
required_columns == AllColumns

\* quality_config['min_sales_amount'] and ['max_sales_amount'], in the unit
\* of the Sales cells
min_sales_amount == 50

max_sales_amount == 100

\* pd.read_csv types each column by its cells: a column in which some cell
\* is text that is no number is an object column, whose numbers stay the
\* text they are in the file
read_csv(file) ==
    [file EXCEPT !.rows = [i \in DOMAIN file.rows |->
        [c \in DOMAIN file.rows[i] |->
            IF /\ file.rows[i][c].k = "num"
               /\ \E h \in DOMAIN file.rows : file.rows[h][c].k = "str"
            THEN Str(<<ToString(file.rows[i][c].n)>>)
            ELSE file.rows[i][c]]]]

\* the numbers of the Sales column
SalesValues(df) ==
    {df.rows[i]["Sales"].n : i \in {h \in DOMAIN df.rows : df.rows[h]["Sales"].k = "num"}}

\* variant: a frame with a sales amount outside the configured range is
\* rejected
_validate_data_quality_enforced(df) ==
    LET missing == IF \E i \in DOMAIN df.rows : \E c \in DOMAIN df.rows[i] : IsNull(df.rows[i][c])
                   THEN {"missing_values"} ELSE {}
        text == HasColumn(df, "Sales") /\ \E i \in DOMAIN df.rows : df.rows[i]["Sales"].k = "str"
        values == IF HasColumn(df, "Sales") /\ ~text THEN SalesValues(df) ELSE {}
        below == IF \E v \in values : v < min_sales_amount THEN {"below_minimum"} ELSE {}
        above == IF \E v \in values : v > max_sales_amount THEN {"above_maximum"} ELSE {}
    IN [raised |-> text \/ below # {} \/ above # {},
        warnings |-> missing \cup below \cup above]

\* DataExtractor._validate_data_quality: a warning on missing values, and
\* on the least and the greatest Sales value against the configured range;
\* when the Sales column holds text its minimum is text, and the comparison
\* with the configured number raises TypeError
_validate_data_quality(df) ==
    LET missing == IF \E i \in DOMAIN df.rows : \E c \in DOMAIN df.rows[i] : IsNull(df.rows[i][c])
                   THEN {"missing_values"} ELSE {}
        text == HasColumn(df, "Sales") /\ \E i \in DOMAIN df.rows : df.rows[i]["Sales"].k = "str"
        values == IF HasColumn(df, "Sales") /\ ~text THEN SalesValues(df) ELSE {}
        below == IF \E v \in values : v < min_sales_amount THEN {"below_minimum"} ELSE {}
        above == IF \E v \in values : v > max_sales_amount THEN {"above_maximum"} ELSE {}
    IN [raised |-> text,
        warnings |-> missing \cup below \cup above]

\* ------------------------------------------------------------------------
\* load_data
\* ------------------------------------------------------------------------

\* the dimension tables in the order _load_dimensions loads them
dimension_order == <<"dim_customer", "dim_product", "dim_time", "dim_branch", "dim_payment">>

\* rows per INSERT of the fact table
batch_size == 50

\* variant: the fact table is loaded before the dimensions
LoadSteps_facts_first == <<"clear_fact", "load_fact", "load_dims", "export">>

\* the statements of load_data, in order
LoadSteps == <<"clear_fact", "load_dims", "load_fact", "export">>

\* the referential constraint of the warehouse: fact_sales rows reference
\* rows of every dimension table, so a dimension table cannot be emptied
\* while fact_sales holds rows
Referenced(wh, table) ==
    /\ table # "fact_sales"
    /\ (wh["fact_sales"].old \/ wh["fact_sales"].rows # <<>>)

\* the outcomes a DELETE FROM table can have: it fails when the constraint
\* forbids it, and it can fail for any other reason
DeleteOutcomes(wh, table) == IF Referenced(wh, table) THEN {FALSE} ELSE BOOLEAN

\* _clear_table: DELETE FROM table; a failure is logged and swallowed
_clear_table(wh, table, ok) ==
    IF ok THEN [wh EXCEPT ![table] = EmptyTable] ELSE wh

\* insert_dataframe(df, table, if_exists='append') that succeeds
insert_dataframe(wh, table, rows) ==
    [wh EXCEPT ![table].rows = @ \o rows]

\* the cursor at the start of step number n of load_data
StepStart(n) == [step |-> n, k |-> IF LoadSteps[n] = "load_dims" THEN 1 ELSE 0, cleared |-> FALSE]

\* the step that follows step number n is entered, or load_data returns
FinishStep(n) ==
    IF n = Len(LoadSteps)
    THEN pc' = "loaded" /\ cursor' = NoCursor
    ELSE pc' = "loading" /\ cursor' = StepStart(n + 1)

\* the cursor, in a step of load_data named name
InStep(name) == pc = "loading" /\ LoadSteps[cursor.step] = name

\* variant: main goes on to load_data after a stage raised
CallLoadData_after_failure ==
    /\ pc \in {"returned", "raised"}
    /\ "load_data" \notin Range(calls)
    /\ calls' = Append(calls, "load_data")
    /\ pc' = "loading"
    /\ cursor' = StepStart(1)
    /\ UNCHANGED <<raw, cleaned_df, dimension_tables, fact_data, result, processed, run, previous, stages>>
    /\ UNCHANGED <<source, diagnostics, warehouse, db_log>>

\* load_data(transformed_data), called with what transform_data returned
CallLoadData ==
    /\ pc = "returned"
    /\ calls' = Append(calls, "load_data")
    /\ pc' = "loading"
    /\ cursor' = StepStart(1)
    /\ UNCHANGED <<raw, cleaned_df, dimension_tables, fact_data, result, processed, run, previous, stages>>
    /\ UNCHANGED <<source, diagnostics, warehouse, db_log>>

\* self._clear_table('fact_sales')
ClearFact ==
    /\ InStep("clear_fact")
    /\ db_log' = Append(db_log, [op |-> "DELETE", table |-> "fact_sales", rows |-> 0])
    /\ \E ok \in DeleteOutcomes(warehouse, "fact_sales") :
          warehouse' = _clear_table(warehouse, "fact_sales", ok)
    /\ FinishStep(cursor.step)
    /\ UNCHANGED <<raw, cleaned_df, dimension_tables, fact_data, result, processed, run, previous, stages, calls>>
    /\ UNCHANGED <<source, diagnostics>>

\* the loop of _load_dimensions goes to its next table, or ends
NextDimension ==
    IF cursor.k = Len(dimension_order)
    THEN FinishStep(cursor.step)
    ELSE pc' = "loading" /\ cursor' = [cursor EXCEPT !.k = @ + 1, !.cleared = FALSE]

\* one table of the loop of _load_dimensions, up to its DELETE: a table
\* that is not in data is passed over
ClearDimension ==
    /\ InStep("load_dims")
    /\ ~cursor.cleared
    /\ LET table == dimension_order[cursor.k]
       IN IF table \in DOMAIN result
          THEN /\ db_log' = Append(db_log, [op |-> "DELETE", table |-> table, rows |-> 0])
               /\ \E ok \in DeleteOutcomes(warehouse, table) :
                     warehouse' = _clear_table(warehouse, table, ok)
               /\ pc' = "loading"
               /\ cursor' = [cursor EXCEPT !.cleared = TRUE]
          ELSE /\ NextDimension
               /\ UNCHANGED <<db_log, warehouse>>
    /\ UNCHANGED <<raw, cleaned_df, dimension_tables, fact_data, result, processed, run, previous, stages, calls>>
    /\ UNCHANGED <<source, diagnostics>>

\* the INSERT of the table just cleared; when it fails _load_dimensions and
\* load_data log and re-raise
InsertDimension ==
    /\ InStep("load_dims")
    /\ cursor.cleared
    /\ LET table == dimension_order[cursor.k]
       IN /\ db_log' = Append(db_log, [op |-> "INSERT", table |-> table, rows |-> Len(result[table].rows)])
          /\ \E ok \in BOOLEAN :
                IF ok
                THEN /\ warehouse' = insert_dataframe(warehouse, table, result[table].rows)
                     /\ NextDimension
                ELSE /\ pc' = "raised"
                     /\ UNCHANGED <<warehouse, cursor>>
    /\ UNCHANGED <<raw, cleaned_df, dimension_tables, fact_data, result, processed, run, previous, stages, calls>>
    /\ UNCHANGED <<source, diagnostics>>

\* variant: df.iloc[i:i+batch_size+1], a batch runs one row into the next
Batch_overlapping(rows, i) ==
    SubSeq(rows, i + 1, IF i + batch_size + 1 < Len(rows) THEN i + batch_size + 1 ELSE Len(rows))

\* df.iloc[i:i+batch_size] of the rows of a frame, i counted from 0
Batch(rows, i) ==
    SubSeq(rows, i + 1, IF i + batch_size < Len(rows) THEN i + batch_size ELSE Len(rows))

\* one round of the loop of _load_fact_table: the INSERT of the batch at
\* offset cursor.k, or the end of the loop; nothing is done when data has
\* no fact_sales
InsertFactBatch ==
    /\ InStep("load_fact")
    /\ IF "fact_sales" \in DOMAIN result /\ cursor.k < Len(result["fact_sales"].rows)
       THEN LET batch == Batch(result["fact_sales"].rows, cursor.k)
            IN /\ db_log' = Append(db_log, [op |-> "INSERT", table |-> "fact_sales", rows |-> Len(batch)])
               /\ \E ok \in BOOLEAN :
                     IF ok
                     THEN /\ warehouse' = insert_dataframe(warehouse, "fact_sales", batch)
                          /\ pc' = "loading"
                          /\ cursor' = [cursor EXCEPT !.k = @ + batch_size]
                     ELSE /\ pc' = "raised"
                          /\ UNCHANGED <<warehouse, cursor>>
       ELSE /\ FinishStep(cursor.step)
            /\ UNCHANGED <<db_log, warehouse>>
    /\ UNCHANGED <<raw, cleaned_df, dimension_tables, fact_data, result, processed, run, previous, stages, calls>>
    /\ UNCHANGED <<source, diagnostics>>

\* self._export_warehouse_data(): the warehouse is read and written to
\* files; every exception in it is caught and logged
ExportWarehouse ==
    /\ InStep("export")
    /\ db_log' = Append(db_log, [op |-> "SELECT", table |-> "v_sales_summary", rows |-> 0])
    /\ FinishStep(cursor.step)
    /\ UNCHANGED <<raw, cleaned_df, dimension_tables, fact_data, result, processed, run, previous, stages, calls>>
    /\ UNCHANGED <<source, diagnostics, warehouse>>

\* longest record sequence behind a table set handed to load_data
MaxLoadLen == 1

\* the six tables transform_data returns for well-formed records
TableSet(recs) ==
    LET df == _clean_data(Frame(recs))
        tables == _create_dimensions(EmptyDict, df).tables
    IN ReturnValue(tables, _create_fact_table(tables, df))

\* a table set without one of its tables
WithoutTable(data, table) == [t \in (DOMAIN data) \ {table} |-> data[t]]

\* the table sets handed to load_data: complete ones, and one with a table
\* left out
LoadInputs ==
    {TableSet(recs) : recs \in SeqUpTo(Palette, MaxLoadLen) \ {<<>>}}
    \cup {WithoutTable(TableSet(<<Sale1>>), WarehouseTables[j]) : j \in DOMAIN WarehouseTables}

\* the warehouse as earlier runs can have left it: any of the tables holds
\* rows, and fact_sales holds rows only when every dimension table does
WarehouseStates ==
    {wh \in [Range(WarehouseTables) -> {EmptyTable, [old |-> TRUE, rows |-> <<>>]}] :
        wh["fact_sales"].old => \A t \in Range(dimension_order) : wh[t].old}

\* load_data called on a table set
InitLoad ==
    /\ raw = NoFrame
    /\ pc = "returned"
    /\ cleaned_df = NoFrame
    /\ dimension_tables = EmptyDict
    /\ fact_data = <<>>
    /\ result \in LoadInputs
    /\ processed = EmptyDict
    /\ run = 1
    /\ previous = [pc |-> "none", result |-> EmptyDict]
    /\ stages = <<>>
    /\ calls = <<>>
    /\ source = <<>>
    /\ diagnostics = {}
    /\ warehouse \in WarehouseStates
    /\ db_log = <<>>
    /\ cursor = NoCursor

NextLoad == CallLoadData \/ ClearFact \/ ClearDimension \/ InsertDimension \/ InsertFactBatch \/ ExportWarehouse

SpecLoad == InitLoad /\ [][NextLoad]_vars

\* ------------------------------------------------------------------------
\* load_data on fact tables of many rows
\* ------------------------------------------------------------------------

\* most rows of a fact table handed to load_data
MaxFactRows == 101

\* the table set of one sale with its fact row repeated n times, each row
\* under its own invoice id
ManyFacts(n) ==
    LET data == TableSet(<<Sale1>>)
    IN [data EXCEPT !["fact_sales"].rows =
           [i \in 1..n |-> [data["fact_sales"].rows[1] EXCEPT !.invoice_id = InvoiceId(i)]]]

BatchInputs == {ManyFacts(n) : n \in 0..MaxFactRows}

InitBatch ==
    /\ raw = NoFrame
    /\ pc = "returned"
    /\ cleaned_df = NoFrame
    /\ dimension_tables = EmptyDict
    /\ fact_data = <<>>
    /\ result \in BatchInputs
    /\ processed = EmptyDict
    /\ run = 1
    /\ previous = [pc |-> "none", result |-> EmptyDict]
    /\ stages = <<>>
    /\ calls = <<>>
    /\ Idle

SpecBatch == InitBatch /\ [][NextLoad]_vars

\* ------------------------------------------------------------------------
\* scripts/run_etl.py: main
\* ------------------------------------------------------------------------

\* longest record sequence of a source file
MaxFileLen == 2

\* the cells of Defects as a file can hold them: a number with blanks
\* around it is a number to read_csv
FileDefects == {defect \in Defects : defect.val # Str(<<" ", "20">>)}

\* the files with one defective cell, or without one column
DefectFiles ==
    {WithDefect(df, 1, defect) : df \in {Frame(<<Sale1>>), Frame(<<Sale1, Sale2>>)}, defect \in FileDefects}
    \cup {WithoutColumn(df, AllColumns[j]) : df \in {Frame(<<Sale1>>), Frame(<<Sale1, Sale2>>)}, j \in DOMAIN AllColumns}

\* the source file of a run: absent, or a file of records
SourceFiles ==
    {<<>>}
    \cup {<<Frame(recs)>> : recs \in SeqUpTo(Palette, MaxFileLen)}
    \cup {<<df>> : df \in DefectFiles}

InitPipeline ==
    /\ raw = NoFrame
    /\ pc = "main"
    /\ cleaned_df = NoFrame
    /\ dimension_tables = EmptyDict
    /\ fact_data = <<>>
    /\ result = EmptyDict
    /\ processed = EmptyDict
    /\ run = 1
    /\ previous = [pc |-> "none", result |-> EmptyDict]
    /\ stages = <<>>
    /\ calls = <<>>
    /\ source \in SourceFiles
    /\ diagnostics = {}
    /\ warehouse = EmptyWarehouse
    /\ db_log = <<>>
    /\ cursor = NoCursor

\* config = load_config(): config.yaml is read, which raises when the file
\* cannot be read
LoadConfig ==
    /\ pc = "main"
    /\ calls' = Append(calls, "load_config")
    /\ \E ok \in BOOLEAN : pc' = IF ok THEN "extract" ELSE "raised"
    /\ UNCHANGED <<raw, cleaned_df, dimension_tables, fact_data, result, processed, run, previous, stages>>
    /\ UNCHANGED io

\* raw_data = extract_data(): extract_supermarket_data raises when the file
\* is absent, reads it, validates the data quality and returns the frame;
\* _validate_columns is not called on this path
Extract ==
    /\ pc = "extract"
    /\ calls' = Append(calls, "extract_data")
    /\ IF source = <<>>
       THEN pc' = "raised" /\ UNCHANGED <<raw, diagnostics>>
       ELSE LET df == read_csv(source[1])
                q == _validate_data_quality(df)
            IN /\ diagnostics' = q.warnings
               /\ IF q.raised
                  THEN pc' = "raised" /\ UNCHANGED raw
                  ELSE pc' = "clean" /\ raw' = df
    /\ UNCHANGED <<cleaned_df, dimension_tables, fact_data, result, processed, run, previous, stages>>
    /\ UNCHANGED <<source, warehouse, db_log, cursor>>

\* main: load_config, extract_data, transform_data, load_data; the except
\* clause logs and re-raises
NextPipeline ==
    \/ LoadConfig
    \/ Extract
    \/ Clean
    \/ CreateDimensions
    \/ CreateFactTable
    \/ CallLoadData
    \/ ClearFact
    \/ ClearDimension
    \/ InsertDimension
    \/ InsertFactBatch
    \/ ExportWarehouse

SpecPipeline == InitPipeline /\ [][NextPipeline]_vars

\* ------------------------------------------------------------------------
\* Properties
\* ------------------------------------------------------------------------

\* the key of the returned dict under which a dimension is returned
ResultName ==
    [customer |-> "dim_customer", product |-> "dim_product", time |-> "dim_time",
     branch |-> "dim_branch", payment |-> "dim_payment"]

Dimensions == Range(DimOrder)

\* the natural-key tuple of a cleaned record for a dimension
RecordKey(name, row) == [j \in DOMAIN DimSource[name] |-> row[DimSource[name][j]]]

\* the natural-key tuple stored in a dimension row
RowKey(name, dimrow) == [j \in DOMAIN DimKey[name] |-> dimrow[DimKey[name][j]]]

\* _create_dimensions has run to its end in the current call
DimensionsBuilt == Len(stages) >= 2 /\ ~(pc = "raised" /\ Len(stages) = 2)

\* _clean_data has run to its end in the current call
CleaningDone == Len(stages) >= 1 /\ ~(pc = "raised" /\ Len(stages) = 1)

\* C1: every fact row returned by transform_data has five non-null foreign
\* keys, and each identifies exactly one row of its dimension table, whose
\* natural key is the natural key of the cleaned record the fact row was
\* built from.
C1_ForeignKeysResolve ==
    pc = "returned" =>
        \A i \in DOMAIN result.fact_sales.rows : \A name \in Dimensions :
            LET fk == result.fact_sales.rows[i][DimId[name]]
                T == result[ResultName[name]].rows
            IN /\ fk.k = "num"
               /\ \E j \in DOMAIN T :
                     /\ T[j][DimId[name]] = fk.n
                     /\ RowKey(name, T[j]) = RecordKey(name, cleaned_df.rows[i])
                     /\ \A h \in DOMAIN T : T[h][DimId[name]] = fk.n => h = j

\* a call returned fact rows that reference different customers and the
\* same branch
C1_Witness ==
    /\ pc = "returned"
    /\ \E i, j \in DOMAIN result.fact_sales.rows :
          /\ result.fact_sales.rows[i].customer_id # result.fact_sales.rows[j].customer_id
          /\ result.fact_sales.rows[i].branch_id = result.fact_sales.rows[j].branch_id

\* C2: once _create_dimensions has run, the surrogate keys of each of the
\* five dimension tables are 1, 2, ..., N in row order, N being the number
\* of distinct natural-key tuples of the dimension in the cleaned records.
C2_DenseSurrogateKeys ==
    DimensionsBuilt =>
        \A name \in Dimensions :
            LET T == dimension_tables[name].rows
            IN /\ \A j \in DOMAIN T : T[j][DimId[name]] = j
               /\ Len(T) = Cardinality({RecordKey(name, cleaned_df.rows[i]) : i \in DOMAIN cleaned_df.rows})

\* dimensions built from three records with three customers and two branches
C2_Witness ==
    /\ DimensionsBuilt
    /\ Len(cleaned_df.rows) = 3
    /\ Len(dimension_tables["customer"].rows) = 3
    /\ Len(dimension_tables["branch"].rows) = 2

\* C3: in every dimension table the row with key k holds the k-th distinct
\* natural-key tuple met when the cleaned records are scanned first to last.
C3_FirstOccurrenceOrder ==
    DimensionsBuilt =>
        \A name \in Dimensions :
            LET T == dimension_tables[name].rows
                R == cleaned_df.rows
            IN \A k \in DOMAIN T :
                  \E p \in DOMAIN R :
                      /\ RecordKey(name, R[p]) = RowKey(name, T[k])
                      /\ \A q \in 1..(p - 1) : RecordKey(name, R[q]) # RowKey(name, T[k])
                      /\ Cardinality({RecordKey(name, R[q]) : q \in 1..p}) = T[k][DimId[name]]

\* the customer of the first and third cleaned record is the same and that
\* of the second is another one, and the first customer is not the least
\* in alphabetical order
C3_Witness ==
    /\ DimensionsBuilt
    /\ Len(cleaned_df.rows) = 3
    /\ RecordKey("customer", cleaned_df.rows[1]) = RecordKey("customer", cleaned_df.rows[3])
    /\ RecordKey("customer", cleaned_df.rows[1]) # RecordKey("customer", cleaned_df.rows[2])
    /\ cleaned_df.rows[1]["Customer type"] = Str(<<"Normal">>)
    /\ Len(dimension_tables["customer"].rows) = 2

\* C4: the fact table transform_data returns has as many rows as there are
\* cleaned records.
C4_FactRowCount ==
    pc = "returned" => Len(result.fact_sales.rows) = Len(cleaned_df.rows)

\* a call returned after cleaning dropped one of two raw records
C4_Witness ==
    /\ pc = "returned"
    /\ Len(raw.rows) = 2
    /\ Len(cleaned_df.rows) = 1
    /\ Len(result.fact_sales.rows) = 1

\* the invoice ids of the rows of a frame, in row order
InvoiceIds(rows, col) == [i \in DOMAIN rows |-> rows[i][col]]

\* a cell that holds a number, as a number or as its text
IsNumber(v) ==
    \/ v.k = "num"
    \/ /\ v.k = "str"
       /\ \E i \in DOMAIN v.s : IsNumeral(v.s[i]) /\ \A j \in DOMAIN v.s : j # i => v.s[j] = " "

\* a raw record with every field present and every numeric field a number
ValidRecord(row) ==
    /\ \A c \in DOMAIN row : row[c].k \notin {"nan", "none"}
    /\ \A j \in DOMAIN numeric_columns : IsNumber(row[numeric_columns[j]])

\* a raw record whose date cell is there and is no date
BadDate(row) == row["Date"].k \notin {"nan", "none"} /\ ~DateParses(row["Date"])

\* the raw frame has the whole column set
FullColumns == \A j \in DOMAIN AllColumns : AllColumns[j] \in Range(raw.columns)

\* the indices of the valid records of the raw frame, ascending
ValidIdx == SelectIdx([i \in DOMAIN raw.rows |-> ValidRecord(raw.rows[i])], 1, Len(raw.rows))

\* C5 (as claimed): a raw record with an unparseable date is dropped and the
\* call goes on: transform_data returns, no fact row carries the record's
\* invoice id, and the fact rows are those of the other valid records.
C5_BadDateRowDropped ==
    (/\ pc \in {"returned", "raised"}
     /\ FullColumns
     /\ \E i \in DOMAIN raw.rows : BadDate(raw.rows[i])
     /\ \E h \in DOMAIN raw.rows : ~BadDate(raw.rows[h]) /\ ValidRecord(raw.rows[h]))
    => /\ pc = "returned"
       /\ \A i \in DOMAIN raw.rows : BadDate(raw.rows[i]) =>
             \A j \in DOMAIN result.fact_sales.rows :
                 result.fact_sales.rows[j].invoice_id # raw.rows[i]["Invoice ID"]
       /\ \A i \in DOMAIN raw.rows : (~BadDate(raw.rows[i]) /\ ValidRecord(raw.rows[i])) =>
             \E j \in DOMAIN result.fact_sales.rows :
                 result.fact_sales.rows[j].invoice_id = raw.rows[i]["Invoice ID"]

C8_FactRowsInRecordOrder ==
    pc = "returned" =>
        /\ DOMAIN result.fact_sales.rows = DOMAIN cleaned_df.rows
        /\ \A i \in DOMAIN result.fact_sales.rows :
              LET f == result.fact_sales.rows[i]
                  r == cleaned_df.rows[i]
              IN /\ f.invoice_id = r["Invoice ID"]
                 /\ f.quantity = r["Quantity"]
                 /\ f.tax_5_percent = r["Tax 5%"]
                 /\ f.sales = r["Sales"]
                 /\ f.cogs = r["cogs"]
                 /\ f.gross_margin_percentage = r["gross margin percentage"]
                 /\ f.gross_income = r["gross income"]
                 /\ f.rating = r["Rating"]

\* a returned fact table of three rows whose measures differ between rows
C8_Witness ==
    /\ pc = "returned"
    /\ Len(result.fact_sales.rows) = 3
    /\ result.fact_sales.rows[1].sales # result.fact_sales.rows[2].sales
    /\ result.fact_sales.rows[2].sales # result.fact_sales.rows[3].sales

\* a cleaned record's natural key is in no row of the dimension table
KeyAbsent(name, row) ==
    \A j \in DOMAIN dimension_tables[name].rows :
        RowKey(name, dimension_tables[name].rows[j]) # RecordKey(name, row)

\* C9 (as claimed): when _create_fact_table is called with a record whose
\* natural key is in no row of a dimension table, it does not raise, and it
\* emits one fact row per record in which a foreign key is null exactly
\* when the key is absent, and is the dimension row's key otherwise.
C9_LookupMissYieldsNull ==
    (/\ stages = <<"dims", "facts">>
     /\ \E h \in DOMAIN cleaned_df.rows : \E name \in Dimensions : KeyAbsent(name, cleaned_df.rows[h]))
    => /\ pc = "done"
       /\ DOMAIN fact_data[1].rows = DOMAIN cleaned_df.rows
       /\ \A i \in DOMAIN cleaned_df.rows : \A name \in Dimensions :
             LET fk == fact_data[1].rows[i][DimId[name]]
             IN IF KeyAbsent(name, cleaned_df.rows[i])
                THEN fk.k = "none"
                ELSE /\ fk.k = "num"
                     /\ \E j \in DOMAIN dimension_tables[name].rows :
                           /\ dimension_tables[name].rows[j][DimId[name]] = fk.n
                           /\ RowKey(name, dimension_tables[name].rows[j]) = RecordKey(name, cleaned_df.rows[i])
       /\ \A i \in DOMAIN cleaned_df.rows :
             /\ fact_data[1].rows[i].invoice_id = cleaned_df.rows[i]["Invoice ID"]
             /\ fact_data[1].rows[i].sales = cleaned_df.rows[i]["Sales"]

\* s is an initial part of t
IsPrefix(s, t) == Len(s) <= Len(t) /\ \A i \in DOMAIN s : s[i] = t[i]

StageOrder == <<"clean", "dims", "facts">>

\* the stage the call is about to run raises
StageRaises ==
    CASE pc = "clean" -> CleanRaises(raw)
      [] pc = "dims" -> _create_dimensions(dimension_tables, cleaned_df).raised
      [] pc = "facts" -> FactRaises(dimension_tables, cleaned_df)
      [] OTHER -> FALSE

\* C10: the stages of a call run in the order clean, dimensions, facts; when
\* a stage raises the call ends raised, having returned nothing, and no
\* further stage runs; a table set is returned only when all three stages
\* have run.
C10_StagesShortCircuit ==
    [][/\ pc \notin {"raised", "returned"}
       /\ IsPrefix(stages', StageOrder)
       /\ Len(stages') = Len(stages) + 1
       /\ StageRaises => (pc' = "raised" /\ result' = EmptyDict)
       /\ pc' = "raised" => result' = EmptyDict
       /\ result' # EmptyDict => (pc' = "returned" /\ stages' = StageOrder)
       /\ pc' = "returned" => result' # EmptyDict]_vars

\* a call raised in the dimension stage, with part of the dimension tables
\* stored and nothing returned
C10_Witness ==
    /\ pc = "raised"
    /\ stages = <<"clean", "dims">>
    /\ DOMAIN dimension_tables # {}
    /\ result = EmptyDict

\* the column schema of each of the six returned tables
TableSchema ==
    [dim_customer |-> <<"customer_id", "customer_type", "gender">>,
     dim_product |-> <<"product_id", "product_line", "unit_price">>,
     dim_time |-> <<"time_id", "date", "time", "year", "month", "day",
                    "quarter", "weekday", "is_weekend">>,
     dim_branch |-> <<"branch_id", "branch", "city">>,
     dim_payment |-> <<"payment_id", "payment_method">>,
     fact_sales |-> <<"invoice_id", "customer_id", "product_id", "time_id",
                      "branch_id", "payment_id", "quantity", "tax_5_percent",
                      "sales", "cogs", "gross_margin_percentage",
                      "gross_income", "rating">>]

\* C11: whenever transform_data returns, the result holds exactly the six
\* tables dim_customer, dim_product, dim_time, dim_branch, dim_payment and
\* fact_sales, each with exactly its fixed columns in every row, whatever
\* the input held.
C11_SixTablesFixedSchema ==
    pc = "returned" =>
        /\ DOMAIN result = DOMAIN TableSchema
        /\ \A name \in DOMAIN TableSchema :
              /\ result[name].columns = TableSchema[name]
              /\ \A i \in DOMAIN result[name].rows :
                    DOMAIN result[name].rows[i] = Range(TableSchema[name])

\* a call returned on an input that lost a record in cleaning, with the six
\* tables and one row in each
C11_Witness ==
    /\ pc = "returned"
    /\ Len(raw.rows) > Len(cleaned_df.rows)
    /\ DOMAIN result = DOMAIN TableSchema
    /\ \A name \in DOMAIN TableSchema : Len(result[name].rows) = 1

\* C12: two cleaned records with one product line and different unit prices
\* have two product rows with different product ids, and their fact rows
\* carry those different ids; two records equal on product line and unit
\* price have fact rows with one product id.
C12_ProductKeyedByLineAndPrice ==
    pc = "returned" =>
        \A i, j \in DOMAIN cleaned_df.rows :
            LET ri == cleaned_df.rows[i]
                rj == cleaned_df.rows[j]
                fi == result.fact_sales.rows[i].product_id
                fj == result.fact_sales.rows[j].product_id
                P == result.dim_product.rows
            IN /\ (ri["Product line"] = rj["Product line"] /\ ri["Unit price"] # rj["Unit price"]) =>
                     /\ fi # fj
                     /\ \E a, b \in DOMAIN P :
                           /\ a # b
                           /\ P[a].product_id = fi.n /\ P[b].product_id = fj.n
                           /\ P[a].product_line = ri["Product line"] /\ P[a].unit_price = ri["Unit price"]
                           /\ P[b].product_line = rj["Product line"] /\ P[b].unit_price = rj["Unit price"]
               /\ (ri["Product line"] = rj["Product line"] /\ ri["Unit price"] = rj["Unit price"]) =>
                     fi = fj

\* a call returned for three records: two of one product line at different
\* prices, and a third equal to the first on both fields
C12_Witness ==
    /\ pc = "returned"
    /\ Len(cleaned_df.rows) = 3
    /\ cleaned_df.rows[1]["Product line"] = cleaned_df.rows[2]["Product line"]
    /\ cleaned_df.rows[1]["Unit price"] # cleaned_df.rows[2]["Unit price"]
    /\ cleaned_df.rows[3]["Product line"] = cleaned_df.rows[1]["Product line"]
    /\ cleaned_df.rows[3]["Unit price"] = cleaned_df.rows[1]["Unit price"]
    /\ Len(result.dim_product.rows) = 2
    /\ result.fact_sales.rows[1].product_id # result.fact_sales.rows[2].product_id
    /\ result.fact_sales.rows[3].product_id = result.fact_sales.rows[1].product_id

\* C13: in every row of the time dimension the quarter is the ceiling of
\* month/3: the least q with 3q >= month, so 1 for months 1-3, 2 for 4-6,
\* 3 for 7-9 and 4 for 10-12.
C13_QuarterIsCeiling ==
    DimensionsBuilt =>
        \A i \in DOMAIN dimension_tables["time"].rows :
            LET row == dimension_tables["time"].rows[i]
            IN /\ row.month \in 1..12
               /\ row.month = ParseInt(raw.rows[i]["Date"].s[1])
               /\ 3 * row.quarter >= row.month
               /\ 3 * (row.quarter - 1) < row.month
               /\ row.month = 4 => row.quarter = 2
               /\ row.month = 12 => row.quarter = 4

\* a time row of month 12 with quarter 4, built from a December date
C13_Witness ==
    /\ DimensionsBuilt
    /\ raw.rows[1]["Date"].s[1] = "12"
    /\ \E i \in DOMAIN dimension_tables["time"].rows :
          /\ dimension_tables["time"].rows[i].month = 12
          /\ dimension_tables["time"].rows[i].quarter = 4

\* days of a common year before the first day of each month
DaysBefore == <<0, 31, 59, 90, 120, 151, 181, 212, 243, 273, 304, 334>>

\* the weekday, Monday = 0, of a date of 2019 or 2020, counted in days from
\* Tuesday 1 January 2019
CalendarWeekday(y, m, dd) ==
    LET leap == IF y = 2020 /\ m > 2 THEN 1 ELSE 0
        year == IF y = 2020 THEN 365 ELSE 0
    IN (1 + year + DaysBefore[m] + leap + dd - 1) % 7

\* C14: in every row of the time dimension is_weekend is true exactly when
\* the weekday is 5 or 6, the weekday is the Monday = 0 index of the row's
\* own date, and that date is the date of the record.
C14_WeekendIffSaturdayOrSunday ==
    DimensionsBuilt =>
        \A i \in DOMAIN dimension_tables["time"].rows :
            LET row == dimension_tables["time"].rows[i]
            IN /\ row.weekday \in 0..6
               /\ row.is_weekend = (row.weekday \in {5, 6})
               /\ row.date = Timestamp(row.year, row.month, row.day)
               /\ row.date = cleaned_df.rows[i]["Date"]
               /\ row.weekday = CalendarWeekday(row.year, row.month, row.day)

\* time rows of a Saturday, of a Sunday and of a Friday
C14_Witness ==
    /\ DimensionsBuilt
    /\ \E i \in DOMAIN dimension_tables["time"].rows :
          LET row == dimension_tables["time"].rows[i]
          IN /\ row.weekday = 5
             /\ row.is_weekend
             /\ row.date = Timestamp(2020, 2, 1)

\* extract_data raises: the file is absent, or the quality validation raises
ExtractRaises ==
    \/ source = <<>>
    \/ _validate_data_quality(read_csv(source[1])).raised

\* extract_data has returned a frame to main
ExtractReturned ==
    /\ Len(calls) >= 2
    /\ calls[2] = "extract_data"
    /\ ~(pc = "raised" /\ Len(calls) = 2)

\* C15 (as claimed): whenever extract_data has returned a frame, every
\* required column is in it; and when the source file lacks a required
\* column, extraction fails and transform_data is never called.
C15_ExtractionGuaranteesColumns ==
    /\ ExtractReturned => Range(required_columns) \subseteq Range(raw.columns)
    /\ (source # <<>> /\ ~(Range(required_columns) \subseteq Range(source[1].columns)))
          => "transform_data" \notin Range(calls)

\* the statements of the log sent for a table
LogOf(op, table) == {i \in DOMAIN db_log : db_log[i].op = op /\ db_log[i].table = table}

\* the dimension tables of the table set handed to load_data
LoadedDimensions == Range(dimension_order) \cap DOMAIN result

\* the statements sent so far are in the order of load_data: every INSERT
\* into fact_sales follows the INSERT of each dimension table of the table
\* set, whose rows are in the warehouse by then, and every DELETE of a
\* dimension table follows the DELETE of fact_sales
LoadOrderKept ==
    /\ \A j \in LogOf("INSERT", "fact_sales") : \A t \in LoadedDimensions :
          /\ \E i \in LogOf("INSERT", t) : i < j
          /\ warehouse[t].rows = result[t].rows
    /\ warehouse["fact_sales"].rows # <<>> =>
          \A t \in LoadedDimensions : warehouse[t].rows = result[t].rows
    /\ \A t \in Range(dimension_order) : \A j \in LogOf("DELETE", t) :
          \E i \in LogOf("DELETE", "fact_sales") : i < j

\* C16: no fact_sales row is inserted until every dimension table of the
\* table set has been inserted; the DELETE of fact_sales runs before the
\* DELETE of any dimension table, and rows of an earlier run leave a
\* dimension table only when fact_sales holds none.
C16_DimensionsBeforeFacts ==
    [][/\ LoadOrderKept
       /\ LoadOrderKept'
       /\ \A t \in Range(dimension_order) :
             (warehouse[t].old /\ ~warehouse'[t].old) =>
                 (~warehouse["fact_sales"].old /\ warehouse["fact_sales"].rows = <<>>)]_vars

\* a load that returned: the fact rows are in the warehouse after the five
\* dimension tables, whose rows of an earlier run are gone
C16_Witness ==
    /\ pc = "loaded"
    /\ DOMAIN result = Range(WarehouseTables)
    /\ warehouse["fact_sales"].rows = result["fact_sales"].rows
    /\ warehouse["fact_sales"].rows # <<>>
    /\ \A t \in Range(dimension_order) : warehouse[t].rows # <<>> /\ ~warehouse[t].old
    /\ \A t \in Range(dimension_order) : LogOf("DELETE", t) # {} /\ LogOf("INSERT", t) # {}

\* C17 (as claimed): whenever load_data has returned on a complete table
\* set, each of the six warehouse tables holds exactly the rows of the
\* table set's table and no row of an earlier run, whether or not a DELETE
\* failed.
C17_LoadFullyReplaces ==
    (pc = "loaded" /\ DOMAIN result = Range(WarehouseTables)) =>
        \A t \in Range(WarehouseTables) :
            /\ ~warehouse[t].old
            /\ warehouse[t].rows = result[t].rows

\* the order in which main calls the stage functions
MainOrder == <<"load_config", "extract_data", "transform_data", "load_data">>

\* C18: main calls extract_data, transform_data and load_data in this
\* order; when extraction or a stage of the transform raises, the run ends
\* raised and nothing runs after it; load_data is called only with the
\* table set a complete transform returned.
C18_FailureIsHardStop ==
    [][/\ pc # "raised"
       /\ IsPrefix(calls', MainOrder)
       /\ (pc = "extract" /\ ExtractRaises) => pc' = "raised"
       /\ StageRaises => pc' = "raised"
       /\ pc' = "raised" => (cursor' = cursor /\ warehouse' = warehouse)
       /\ Len(calls') > Len(calls) /\ calls'[Len(calls')] = "load_data" =>
             /\ pc = "returned"
             /\ stages = StageOrder
             /\ DOMAIN result = Range(WarehouseTables)]_vars

\* a run in which the transform raised: load_data was not called, nothing
\* was sent to the database
C18_Witness ==
    /\ pc = "raised"
    /\ calls = <<"load_config", "extract_data", "transform_data">>
    /\ Len(stages) >= 2
    /\ result = EmptyDict
    /\ db_log = <<>>
    /\ warehouse = EmptyWarehouse

\* C19: the step that runs _clean_data leaves the frame passed in as it
\* was, rows, order and cells, when it returns and when it raises; what it
\* parses, trims, coerces and drops is in the frame it returns.
C19_CleanLeavesInputUnchanged ==
    [][pc = "clean" => raw' = raw]_vars

\* cleaning has dropped a record and converted cells, and the raw frame
\* still holds the record and the text of its date
C19_Witness ==
    /\ pc = "dims"
    /\ Len(raw.rows) = 2
    /\ Len(cleaned_df.rows) = 1
    /\ cleaned_df.rows[1]["Date"].k = "ts"
    /\ \A i \in DOMAIN raw.rows : raw.rows[i]["Date"].k = "str"
    /\ \E i \in DOMAIN raw.rows : \E c \in DOMAIN raw.rows[i] : IsNull(raw.rows[i][c])

\* a record of the source file whose sales amount is outside the range
OutOfRange(row) ==
    /\ "Sales" \in DOMAIN row
    /\ row["Sales"].k = "num"
    /\ (row["Sales"].n < min_sales_amount \/ row["Sales"].n > max_sales_amount)

\* a source file with all columns in which every record is valid and has a
\* date and a time that parse
WellFormedFile ==
    /\ source # <<>>
    /\ Range(AllColumns) \subseteq Range(source[1].columns)
    /\ \A i \in DOMAIN source[1].rows :
          /\ ValidRecord(source[1].rows[i])
          /\ source[1].rows[i]["Date"].k = "str" /\ DateParses(source[1].rows[i]["Date"])
          /\ source[1].rows[i]["Time"].k = "str" /\ TimeParses(source[1].rows[i]["Time"])
          /\ \A j \in DOMAIN string_columns : source[1].rows[i][string_columns[j]].k = "str"

\* C20: a sales amount outside the configured range only gives a warning:
\* a well-formed file with such a record does not make extraction or the
\* transform raise, and every valid record of the extracted frame, in range
\* or not, has its fact row with its sales amount.
C20_OutOfRangeSalesKept ==
    /\ (WellFormedFile /\ source[1].rows # <<>> /\ pc = "raised") =>
          (calls = <<"load_config">> \/ "load_data" \in Range(calls))
    /\ (WellFormedFile /\ ExtractReturned) =>
          /\ "below_minimum" \in diagnostics
                <=> \E i \in DOMAIN raw.rows : raw.rows[i]["Sales"].n < min_sales_amount
          /\ "above_maximum" \in diagnostics
                <=> \E i \in DOMAIN raw.rows : raw.rows[i]["Sales"].n > max_sales_amount
    /\ result # EmptyDict =>
          /\ InvoiceIds(result.fact_sales.rows, "invoice_id")
                = [j \in DOMAIN ValidIdx |-> raw.rows[ValidIdx[j]]["Invoice ID"]]
          /\ \A j \in DOMAIN ValidIdx :
                result.fact_sales.rows[j].sales = ToNumeric(raw.rows[ValidIdx[j]]["Sales"])

\* a run that loaded fact rows of a sales amount above the range and of one
\* below it, each with its warning
C20_Witness ==
    /\ pc = "loaded"
    /\ diagnostics = {"below_minimum", "above_maximum"}
    /\ \E i, j \in DOMAIN raw.rows :
          /\ OutOfRange(raw.rows[i]) /\ raw.rows[i]["Sales"].n > max_sales_amount
          /\ OutOfRange(raw.rows[j]) /\ raw.rows[j]["Sales"].n < min_sales_amount
          /\ result.fact_sales.rows[i].sales = raw.rows[i]["Sales"]
          /\ result.fact_sales.rows[j].sales = raw.rows[j]["Sales"]
          /\ warehouse["fact_sales"].rows = result.fact_sales.rows

\* C21 (as claimed): for a raw frame with all columns whose records are all
\* dropped in cleaning, transform_data does not raise and returns the six
\* tables with zero rows each.
C21_ZeroSurvivorsReturnEmptyTables ==
    (/\ pc \in {"returned", "raised"}
     /\ FullColumns
     /\ raw.rows # <<>>
     /\ ~CleanRaises(raw)
     /\ _clean_data(raw).rows = <<>>)
    => /\ pc = "returned"
       /\ DOMAIN result = DOMAIN TableSchema
       /\ \A name \in DOMAIN TableSchema : result[name].rows = <<>>

\* text s is text core with nothing but blanks before and after it, and
\* core neither starts nor ends with a blank
IsPaddingOf(s, core) ==
    /\ core # <<>> => (core[1] # " " /\ core[Len(core)] # " ")
    /\ \E a \in 0..Len(s) :
          /\ a + Len(core) <= Len(s)
          /\ \A i \in 1..a : s[i] = " "
          /\ \A i \in 1..Len(core) : s[a + i] = core[i]
          /\ \A i \in (a + Len(core) + 1)..Len(s) : s[i] = " "

\* the pieces of a text, among which is its text without the blanks
\* around it
Pieces(s) == {SubSeq(s, a, b) : a \in 1..(Len(s) + 1), b \in 0..Len(s)}

\* two raw cells are the same, or texts that differ only by the blanks
\* around them
SameUpToBlanks(v, w) ==
    \/ v = w
    \/ /\ v.k = "str" /\ w.k = "str"
       /\ \E core \in Pieces(v.s) : IsPaddingOf(v.s, core) /\ IsPaddingOf(w.s, core)

\* the dimensions with text in their natural key
TextDimensions == {"customer", "product", "branch", "payment"}

\* C22: two records whose natural keys differ only by blanks around their
\* text have one dimension row and one surrogate key in their fact rows,
\* and every text a dimension row stores is the raw text without the blanks
\* around it.
C22_WhitespaceTrimmedBeforeKeys ==
    pc = "returned" =>
        /\ Len(result.fact_sales.rows) = Len(raw.rows)
        /\ \A name \in TextDimensions : \A i, j \in DOMAIN raw.rows :
              (\A h \in DOMAIN DimSource[name] :
                   SameUpToBlanks(raw.rows[i][DimSource[name][h]], raw.rows[j][DimSource[name][h]]))
              => /\ result.fact_sales.rows[i][DimId[name]] = result.fact_sales.rows[j][DimId[name]]
                 /\ Cardinality({k \in DOMAIN result[ResultName[name]].rows :
                        \A h \in DOMAIN DimKey[name] :
                            LET stored == result[ResultName[name]].rows[k][DimKey[name][h]]
                                cell == raw.rows[i][DimSource[name][h]]
                            IN IF cell.k = "str" THEN IsPaddingOf(cell.s, stored.s)
                               ELSE stored = cell}) = 1
        /\ \A name \in TextDimensions : \A k \in DOMAIN result[ResultName[name]].rows :
              \A h \in DOMAIN DimKey[name] :
                  LET stored == result[ResultName[name]].rows[k][DimKey[name][h]]
                  IN stored.k = "str" =>
                        \E i \in DOMAIN raw.rows :
                            IsPaddingOf(raw.rows[i][DimSource[name][h]].s, stored.s)

\* two records whose payment method differs only by a blank before and a
\* blank after it share the one payment row, which stores the trimmed text
C22_Witness ==
    /\ pc = "returned"
    /\ raw.rows[1]["Payment"] = Str(<<"Cash">>)
    /\ raw.rows[2]["Payment"] = Str(<<" ", "Cash", " ">>)
    /\ Len(result.dim_payment.rows) = 1
    /\ result.dim_payment.rows[1].payment_method = Str(<<"Cash">>)
    /\ result.fact_sales.rows[1].payment_id = result.fact_sales.rows[2].payment_id

\* what transform_data of a new DataTransformer does with a frame: it
\* raises, or returns the six tables
FreshOutcome(df) ==
    IF CleanRaises(df) THEN [pc |-> "raised", result |-> EmptyDict]
    ELSE LET cleaned == _clean_data(df)
             dims == BuildDims(EmptyDict, cleaned, 1)
         IN IF dims.raised \/ FactRaises(dims.tables, cleaned)
            THEN [pc |-> "raised", result |-> EmptyDict]
            ELSE [pc |-> "returned",
                  result |-> ReturnValue(dims.tables, _create_fact_table(dims.tables, cleaned))]

\* C23: a call of transform_data on a DataTransformer that was used before
\* ends as a call on a new one does for the same frame: it returns exactly
\* when that one returns, with the same six tables, and the tables and fact
\* rows the instance holds after a return are those of this call alone.
C23_ReusedTransformerRecomputes ==
    (run > 1 /\ pc \in {"returned", "raised"}) =>
        /\ pc = FreshOutcome(raw).pc
        /\ result = FreshOutcome(raw).result
        /\ pc = "returned" =>
              /\ \A name \in Dimensions : dimension_tables[name] = result[ResultName[name]]
              /\ fact_data = <<result.fact_sales>>

\* the second call on an instance returned tables that differ from those
\* the first call returned, for another frame
C23_Witness ==
    /\ run = 2
    /\ pc = "returned"
    /\ previous.pc = "returned"
    /\ previous.result # result
    /\ previous.result.dim_branch # result.dim_branch
    /\ Len(result.fact_sales.rows) = 1

\* the INSERTs into fact_sales sent so far, in the order they were sent
FactInserts ==
    LET idx == SelectIdx([i \in DOMAIN db_log |->
                   db_log[i].op = "INSERT" /\ db_log[i].table = "fact_sales"], 1, Len(db_log))
    IN [k \in DOMAIN idx |-> db_log[idx[k]]]

\* C24: the INSERTs into fact_sales carry consecutive batches of the fact
\* table: the k-th has the rows 50(k-1)+1 .. min(50k, n), so 50 rows except
\* possibly the last and never none; the rows in the warehouse are the
\* fact table's rows up to the last batch inserted, in order; and when
\* load_data has returned there were ceil(n/50) INSERTs and the warehouse
\* holds the fact table itself, every row once.
C24_FactBatchesPartitionTable ==
    LET n == Len(result["fact_sales"].rows)
        sent == Len(FactInserts)
        held == warehouse["fact_sales"].rows
    IN /\ \A k \in DOMAIN FactInserts :
             /\ FactInserts[k].rows = (IF 50 * k <= n THEN 50 ELSE n - 50 * (k - 1))
             /\ FactInserts[k].rows \in 1..50
             /\ k < sent => FactInserts[k].rows = 50
       /\ held = SubSeq(result["fact_sales"].rows, 1, Len(held))
       /\ Len(held) = (IF pc = "raised" /\ sent > 0 /\ LoadSteps[cursor.step] = "load_fact"
                       THEN 50 * (sent - 1)
                       ELSE IF 50 * sent <= n THEN 50 * sent ELSE n)
       /\ pc = "loaded" =>
             /\ 50 * sent >= n
             /\ 50 * (sent - 1) < n \/ sent = 0
             /\ n = 0 => sent = 0
             /\ held = result["fact_sales"].rows
             /\ \A i, j \in DOMAIN held : held[i] = held[j] => i = j

\* load_data returned after three INSERTs of 50, 50 and 1 rows
C24_Witness ==
    /\ pc = "loaded"
    /\ Len(result["fact_sales"].rows) = 101
    /\ Len(FactInserts) = 3
    /\ FactInserts[1].rows = 50
    /\ FactInserts[3].rows = 1
    /\ Len(warehouse["fact_sales"].rows) = 101

\* the INSERT of a dimension table was the last statement sent and its
\* rows are not in the warehouse: it failed
DimensionInsertFailed ==
    /\ db_log # <<>>
    /\ db_log[Len(db_log)].op = "INSERT"
    /\ db_log[Len(db_log)].table \in Range(dimension_order)
    /\ warehouse[db_log[Len(db_log)].table].rows # result[db_log[Len(db_log)].table].rows

\* C25 (as claimed): when the INSERT of a dimension table fails, load_data
\* ends raised; no statement is sent for the dimension tables after it, no
\* fact_sales row is inserted and the export is not run; and fact_sales is
\* left empty.
C25_FailedDimensionInsertStopsLoad ==
    DimensionInsertFailed =>
        /\ pc = "raised"
        /\ \A k \in DOMAIN dimension_order :
              k > cursor.k =>
                  /\ LogOf("DELETE", dimension_order[k]) = {}
                  /\ LogOf("INSERT", dimension_order[k]) = {}
                  /\ warehouse[dimension_order[k]].rows = <<>>
        /\ LogOf("INSERT", "fact_sales") = {}
        /\ LogOf("SELECT", "v_sales_summary") = {}
        /\ LogOf("DELETE", "fact_sales") # {}
        /\ warehouse["fact_sales"].rows = <<>>
        /\ ~warehouse["fact_sales"].old

\* the fact table was built and a write of _save_processed_data failed: one
\* of the six files is not on disk
SaveFailed ==
    /\ fact_data # <<>>
    /\ \E k \in DOMAIN SaveOrder : SaveOrder[k] \notin DOMAIN processed

\* C26: a failed write of the processed CSV files is swallowed:
\* transform_data has returned, not raised, and what it returned is the
\* complete six-table set, equal to the tables that were built and to what
\* the call returns when every file is written.
C26_SaveFailureSwallowed ==
    SaveFailed =>
        /\ pc = "returned"
        /\ DOMAIN result = Range(WarehouseTables)
        /\ result = ReturnValue(dimension_tables, fact_data[1])
        /\ result = FreshOutcome(raw).result

\* the first two files were written, the third write failed, and the six
\* tables were returned with rows in each
C26_Witness ==
    /\ SaveFailed
    /\ DOMAIN processed = {"customer.csv", "product.csv"}
    /\ pc = "returned"
    /\ \A t \in DOMAIN result : Len(result[t].rows) >= 2

====
